---- MODULE Spec2Model ----
(***************************************************************************)
(* The Express example server of src/app.js as a state machine.           *)
(*                                                                         *)
(* Every request slot carries its own req/res objects.  A request arrives, *)
(* runs through the middleware and the handler registered for its route,   *)
(* and ends with the responses that were written for it.  The upstream     *)
(* API, the wall clock and the client's multipart stream are the           *)
(* environment.  Strings that the code takes apart or puts together (file  *)
(* names, url-encoded bodies) are sequences of one-character strings.      *)
(***************************************************************************)
EXTENDS Integers, Sequences, FiniteSets, TLC

\* ------------------------------------------------------------------ bounds
NumReq == 2    \* request slots that may be in flight together
MaxTime == 1   \* Date.now() returns counts in 0..MaxTime

\* --------------------------------------------------------- program constants
maxCount == 3  \* upload.array("my_files", 3)

Requests == 1..NumReq

VARIABLES
  env,        \* process.env: are API_BASE_URL and API_SECRET_KEY set
  now,        \* the millisecond count Date.now() returned last
  uploads,    \* file names present in public/uploads
  alive,      \* the server process is running
  pc,         \* where each request is in its chain
  req,        \* the request object: route, params, body
  files,      \* req.files, as multer fills it
  client,     \* what the client submitted (form strings, number of file parts sent)
  addedStuff, \* res.addedStuff
  upstream,   \* how the request's axios call settled
  forwarded,  \* the error handed to next(err), if any
  responses   \* the responses written for the request, in order

vars == <<env, now, uploads, alive, pc, req, files, client, addedStuff, upstream, forwarded, responses>>

\* ----------------------------------------------------------------- strings
RECURSIVE Concat(_)
\* the concatenation of a sequence of strings
Concat(ss) == IF ss = <<>> THEN <<>> ELSE Head(ss) \o Concat(Tail(ss))

RECURSIVE LastIndexOf(_, _)
\* the last position of character c in s, 0 when absent
LastIndexOf(s, c) ==
  IF s = <<>> THEN 0
  ELSE IF s[Len(s)] = c THEN Len(s)
  ELSE LastIndexOf(SubSeq(s, 1, Len(s) - 1), c)

RECURSIVE IndexOf(_, _)
\* the first position of character c in s, 0 when absent
IndexOf(s, c) ==
  IF s = <<>> THEN 0
  ELSE IF Head(s) = c THEN 1
  ELSE LET i == IndexOf(Tail(s), c) IN IF i = 0 THEN 0 ELSE i + 1

Digit(d) == CASE d = 0 -> "0" [] d = 1 -> "1" [] d = 2 -> "2" [] d = 3 -> "3"
              [] d = 4 -> "4" [] d = 5 -> "5" [] d = 6 -> "6" [] d = 7 -> "7"
              [] d = 8 -> "8" [] d = 9 -> "9"

RECURSIVE ToDigits(_)
\* the decimal text of a natural number, as a template literal prints it
ToDigits(n) == IF n < 10 THEN <<Digit(n)>> ELSE ToDigits(n \div 10) \o <<Digit(n % 10)>>

\* a value JavaScript leaves undefined
Undefined == <<"undefined">>

\* ------------------------------------------------- stored upload file names
\* path.extname: from the last "." on, empty when there is none or when the
\* name starts with its only "."
extname(name) ==
  LET i == LastIndexOf(name, ".")
  IN IF i <= 1 THEN <<>> ELSE SubSeq(name, i, Len(name))

\* path.basename(name, ext): the name without the suffix ext
basename(name, ext) ==
  IF /\ ext # <<>>
     /\ Len(name) > Len(ext)
     /\ SubSeq(name, Len(name) - Len(ext) + 1, Len(name)) = ext
  THEN SubSeq(name, 1, Len(name) - Len(ext))
  ELSE name

\* the filename callback of multer.diskStorage: base name, "-", Date.now(), extension
filename(originalname, t) ==
  LET extension == extname(originalname)
      basenameWithoutExtension == basename(originalname, extension)
  IN basenameWithoutExtension \o <<"-">> \o ToDigits(t) \o extension

\* the original names clients give their files
Originals == { <<"a", ".", "b", ".", "t">> }

\* ------------------------------------------------------ url-encoded bodies
\* encodeURIComponent on one character, as the client's form encoder applies it
Escape(c) ==
  CASE c = "&" -> <<"%", "2", "6">>
    [] c = "=" -> <<"%", "3", "D">>
    [] c = "@" -> <<"%", "4", "0">>
    [] c = "+" -> <<"%", "2", "B">>
    [] c = "%" -> <<"%", "2", "5">>
    [] c = " " -> <<"%", "2", "0">>
    [] OTHER -> <<c>>

RECURSIVE Encode(_)
Encode(s) == IF s = <<>> THEN <<>> ELSE Escape(Head(s)) \o Encode(Tail(s))

\* the character a percent escape stands for
Unescape(h, l) ==
  CASE h = "2" /\ l = "6" -> "&"
    [] h = "3" /\ l = "D" -> "="
    [] h = "4" /\ l = "0" -> "@"
    [] h = "2" /\ l = "B" -> "+"
    [] h = "2" /\ l = "5" -> "%"
    [] h = "2" /\ l = "0" -> " "
    [] OTHER -> "?"

RECURSIVE Decode(_)
\* the decoder of express.urlencoded: "+" is a space, %XX is unescaped
Decode(s) ==
  IF s = <<>> THEN <<>>
  ELSE IF Head(s) = "+" THEN <<" ">> \o Decode(Tail(s))
  ELSE IF Head(s) = "%" /\ Len(s) >= 3
       THEN <<Unescape(s[2], s[3])>> \o Decode(SubSeq(s, 4, Len(s)))
  ELSE <<Head(s)>> \o Decode(Tail(s))

RECURSIVE Split(_, _)
\* s cut at every character c
Split(s, c) ==
  LET i == IndexOf(s, c)
  IN IF i = 0 THEN <<s>>
     ELSE <<SubSeq(s, 1, i - 1)>> \o Split(SubSeq(s, i + 1, Len(s)), c)

\* a part cut at "=" and left as it came over the wire
PairUndecoded(part) ==
  LET i == IndexOf(part, "=")
  IN IF i = 0 THEN [key |-> part, value |-> <<>>]
     ELSE [key |-> SubSeq(part, 1, i - 1), value |-> SubSeq(part, i + 1, Len(part))]

\* one "key=value" part of a body, decoded
Pair(part) ==
  LET i == IndexOf(part, "=")
  IN IF i = 0 THEN [key |-> Decode(part), value |-> <<>>]
     ELSE [key |-> Decode(SubSeq(part, 1, i - 1)),
           value |-> Decode(SubSeq(part, i + 1, Len(part)))]

\* the parser without the decoding of percent escapes
urlencodedUndecoded(body) ==
  IF body = <<>> THEN <<>>
  ELSE LET parts == Split(body, "&") IN [k \in 1..Len(parts) |-> PairUndecoded(parts[k])]

\* express.urlencoded({ extended: true }): the body as decoded key/value pairs
urlencoded(body) ==
  IF body = <<>> THEN <<>>
  ELSE LET parts == Split(body, "&") IN [k \in 1..Len(parts) |-> Pair(parts[k])]

\* req.body[key]: the value of the field, undefined when the body has none
Field(parsed, key) ==
  IF \E k \in 1..Len(parsed) : parsed[k].key = key
  THEN parsed[CHOOSE k \in 1..Len(parsed) :
                /\ parsed[k].key = key
                /\ \A j \in 1..(k - 1) : parsed[j].key # key].value
  ELSE Undefined

KeyName == <<"y", "o", "u", "r", "_", "n", "a", "m", "e">>
KeyEmail == <<"y", "o", "u", "r", "_", "e", "m", "a", "i", "l">>
KeyAgree == <<"a", "g", "r", "e", "e">>

\* the body a client posts for the three form fields
FormBody(form) ==
  Concat(<< Encode(KeyName), <<"=">>, Encode(form.your_name), <<"&">>,
            Encode(KeyEmail), <<"=">>, Encode(form.your_email), <<"&">>,
            Encode(KeyAgree), <<"=">>, Encode(form.agree) >>)

\* the forms clients submit
Names == { <<"F", "o", "o">>, <<"a", "&", "b", "=", " ", "+", "%">> }
Emails == { <<"f", "b", "1", "2", "5", "8", "@", "n", "y", "u", ".", "e", "d", "u">> }
Agrees == { <<"t", "r", "u", "e">> }
Forms == [your_name : Names, your_email : Emails, agree : Agrees]
NoForm == [your_name |-> <<>>, your_email |-> <<>>, agree |-> <<>>]

\* ------------------------------------------------------ requests, responses
AnimalIds == {"7", "8"}

Request(method, path, animalId, body) ==
  [method |-> method, path |-> path, animalId |-> animalId, body |-> body]

NoRequest == Request("none", "none", "none", <<>>)
NoError == [name |-> "none", code |-> "none"]
Pending == [kind |-> "none", data |-> [animal |-> "none"]]

\* the bodies the upstream API answers with
UpstreamData == { [animal |-> "zebra"], [animal |-> "yak"] }

\* the ways an axios.get settles: fulfilled with a body, or rejected
Fulfilled == { [kind |-> "ok", data |-> d] : d \in UpstreamData }
Rejected == { [kind |-> k, data |-> [animal |-> "none"]] : k \in {"ERR_NETWORK", "ERR_BAD_RESPONSE"} }
InvalidUrl == [kind |-> "ERR_INVALID_URL", data |-> [animal |-> "none"]]

\* the error object a rejected axios.get carries
AxiosError(outcome) == [name |-> "AxiosError", code |-> outcome.kind]

\* the error multer raises for a file beyond maxCount
MulterError == [name |-> "MulterError", code |-> "LIMIT_UNEXPECTED_FILE"]

\* how a call to ${API_BASE_URL}?key=${API_SECRET_KEY} can settle: without the
\* two variables the URL reads "undefined?key=undefined" and the call is rejected
ConfiguredOutcomes ==
  IF env = "configured" THEN Fulfilled \cup Rejected ELSE {InvalidUrl}

\* res.send(text), res.sendFile(..), res.json(body): status 200 unless set
Response(type, body, by) == [status |-> 200, type |-> type, body |-> body, by |-> by]

\* the response is appended to what was written for the request so far
Send(r, resp) == responses' = [responses EXCEPT ![r] = Append(@, resp)]

Idle(r) == alive /\ pc[r] = "idle"

\* ------------------------------------------------------------------- Init
Init ==
  /\ env \in {"configured", "missing"}
  /\ now = 0
  /\ uploads = {}
  /\ alive = TRUE
  /\ pc = [r \in Requests |-> "idle"]
  /\ req = [r \in Requests |-> NoRequest]
  /\ files = [r \in Requests |-> <<>>]
  /\ client = [r \in Requests |-> [form |-> NoForm, nfiles |-> 0]]
  /\ addedStuff = [r \in Requests |-> <<>>]
  /\ upstream = [r \in Requests |-> Pending]
  /\ forwarded = [r \in Requests |-> NoError]
  /\ responses = [r \in Requests |-> <<>>]

\* Date.now(): a millisecond count no smaller than the one read last
DateNow == now..MaxTime

\* ----------------------------------------------------------- static routes
RootBody == [text |-> "Goodbye world!"]

\* app.get("/")
GetRoot(r) ==
  /\ Idle(r)
  /\ req' = [req EXCEPT ![r] = Request("GET", "/", "none", <<>>)]
  /\ Send(r, Response("html", RootBody, "handler"))
  /\ pc' = [pc EXCEPT ![r] = "done"]
  /\ UNCHANGED <<env, now, uploads, alive, files, client, addedStuff, upstream, forwarded>>

HtmlBody == [file |-> "/public/some-page.html"]

\* app.get("/html-example")
GetHtml(r) ==
  /\ Idle(r)
  /\ req' = [req EXCEPT ![r] = Request("GET", "/html-example", "none", <<>>)]
  /\ Send(r, Response("html", HtmlBody, "handler"))
  /\ pc' = [pc EXCEPT ![r] = "done"]
  /\ UNCHANGED <<env, now, uploads, alive, files, client, addedStuff, upstream, forwarded>>

\* the document with a count of the requests served so far
JsonBodyCounted ==
  [title |-> "Hello!", heading |-> "Hello!",
   message |-> "Welcome to this JSON document, served up by Express",
   imagePath |-> "/static/images/donkey.jpg",
   visits |-> Cardinality({q \in Requests : pc[q] = "done"})]

\* const body of the handler
JsonBody ==
  [title |-> "Hello!", heading |-> "Hello!",
   message |-> "Welcome to this JSON document, served up by Express",
   imagePath |-> "/static/images/donkey.jpg"]

\* app.get("/json-example")
GetJson(r) ==
  /\ Idle(r)
  /\ req' = [req EXCEPT ![r] = Request("GET", "/json-example", "none", <<>>)]
  /\ Send(r, Response("json", JsonBody, "handler"))
  /\ pc' = [pc EXCEPT ![r] = "done"]
  /\ UNCHANGED <<env, now, uploads, alive, files, client, addedStuff, upstream, forwarded>>

\* ------------------------------------------------------ /middleware-example
\* a string put into res.addedStuff, with the request whose step wrote it
Marker(text, r) == [text |-> text, by |-> r]

\* res.addedStuff of request r
StuffOf(store, r) == store[r]

\* the field kept in one variable of the module, which every request shares
SetStuffShared(store, r, v) == [q \in DOMAIN store |-> v]

\* an assignment to res.addedStuff changes the res object of request r alone
SetStuff(store, r, v) == [store EXCEPT ![r] = v]

\* a GET /middleware-example arrives and enters the chain
MiddlewareRequest(r) ==
  /\ Idle(r)
  /\ req' = [req EXCEPT ![r] = Request("GET", "/middleware-example", "none", <<>>)]
  /\ pc' = [pc EXCEPT ![r] = "first"]
  /\ UNCHANGED <<env, now, uploads, alive, files, client, addedStuff, upstream,
                 forwarded, responses>>

\* custom middleware - first: res.addedStuff = "First middleware function run!"; next()
First(r) ==
  /\ alive /\ pc[r] = "first"
  /\ addedStuff' = SetStuff(addedStuff, r, <<Marker("First middleware function run!", r)>>)
  /\ pc' = [pc EXCEPT ![r] = "second"]
  /\ UNCHANGED <<env, now, uploads, alive, req, files, client, upstream, forwarded, responses>>

\* the second middleware with = where the code has +=
SecondAssigns(r) ==
  /\ alive /\ pc[r] = "second"
  /\ addedStuff' = SetStuff(addedStuff, r, <<Marker(" Second middleware function run!", r)>>)
  /\ pc' = [pc EXCEPT ![r] = "handler"]
  /\ UNCHANGED <<env, now, uploads, alive, req, files, client, upstream, forwarded, responses>>

\* custom middleware - second: res.addedStuff += " Second middleware function run!"; next()
Second(r) ==
  /\ alive /\ pc[r] = "second"
  /\ LET old == StuffOf(addedStuff, r)
         left == IF old = <<>> THEN <<Marker("undefined", r)>> ELSE old
     IN addedStuff' =
          SetStuff(addedStuff, r, Append(left, Marker(" Second middleware function run!", r)))
  /\ pc' = [pc EXCEPT ![r] = "handler"]
  /\ UNCHANGED <<env, now, uploads, alive, req, files, client, upstream, forwarded, responses>>

\* the text of res.addedStuff
TextOf(stuff) == [k \in 1..Len(stuff) |-> stuff[k].text]

\* app.get("/middleware-example")
MiddlewareHandler(r) ==
  /\ alive /\ pc[r] = "handler"
  /\ LET stuff == StuffOf(addedStuff, r)
         message == IF stuff # <<>> THEN TextOf(stuff)
                    ELSE <<"Sorry, the middleware did not work!">>
     IN Send(r, Response("html", [parts |-> message], "handler"))
  /\ pc' = [pc EXCEPT ![r] = "done"]
  /\ UNCHANGED <<env, now, uploads, alive, req, files, client, addedStuff, upstream, forwarded>>

\* ------------------------------------------------------------ /post-example
\* the data object of the handler, from req.body
PostData(body) ==
  [status |-> "amazing success!",
   message |-> "congratulations on sending us this data!",
   your_data |-> [name |-> Field(body, KeyName),
                  email |-> Field(body, KeyEmail),
                  agree |-> Field(body, KeyAgree)]]

\* app.post("/post-example"), behind express.urlencoded
PostExample(r, form) ==
  /\ Idle(r)
  /\ client' = [client EXCEPT ![r].form = form]
  /\ req' = [req EXCEPT ![r] = Request("POST", "/post-example", "none", FormBody(form))]
  /\ Send(r, Response("json", PostData(urlencoded(FormBody(form))), "handler"))
  /\ pc' = [pc EXCEPT ![r] = "done"]
  /\ UNCHANGED <<env, now, uploads, alive, files, addedStuff, upstream, forwarded>>

\* ---------------------------------------------------------- /upload-example
\* a POST /upload-example arrives; multer starts reading its multipart body
UploadRequest(r) ==
  /\ Idle(r)
  /\ req' = [req EXCEPT ![r] = Request("POST", "/upload-example", "none", <<>>)]
  /\ pc' = [pc EXCEPT ![r] = "multer"]
  /\ UNCHANGED <<env, now, uploads, alive, files, client, addedStuff, upstream,
                 forwarded, responses>>

\* the stored names of the files in req.files
StoredNames(fs) == { fs[k].filename : k \in 1..Len(fs) }

\* upload.array("my_files", 3) reads the next file part of field my_files:
\* up to maxCount files are named by the filename callback and written to
\* public/uploads; one file more is LIMIT_UNEXPECTED_FILE: multer removes the
\* files it stored for the request and calls next(err)
UploadFile(r, originalname, t) ==
  /\ alive /\ pc[r] = "multer"
  /\ client' = [client EXCEPT ![r].nfiles = @ + 1]
  /\ IF Len(files[r]) < maxCount
     THEN LET newName == filename(originalname, t)
          IN /\ now' = t
             /\ files' = [files EXCEPT ![r] =
                            Append(@, [originalname |-> originalname, filename |-> newName])]
             /\ uploads' = uploads \cup {newName}
             /\ UNCHANGED <<pc, forwarded>>
     ELSE /\ t = now
          /\ uploads' = uploads \ StoredNames(files[r])
          /\ files' = [files EXCEPT ![r] = <<>>]
          /\ forwarded' = [forwarded EXCEPT ![r] = MulterError]
          /\ pc' = [pc EXCEPT ![r] = "error"]
          /\ UNCHANGED now
  /\ UNCHANGED <<env, alive, req, addedStuff, upstream, responses>>

FailureBody == [status |-> "you fail!!!", message |-> "rejected your files... try harder"]

\* the handler with >= 3 where the code has > 3
UploadBodyStrict(fs) ==
  IF Len(fs) = 0 THEN FailureBody
  ELSE IF Len(fs) >= 3 THEN FailureBody
  ELSE [status |-> "all good", message |-> "files were uploaded!!!", files |-> fs]

\* the body the handler answers with, from req.files
UploadBody(fs) ==
  IF Len(fs) = 0 THEN FailureBody
  ELSE IF Len(fs) > 3 THEN FailureBody
  ELSE [status |-> "all good", message |-> "files were uploaded!!!", files |-> fs]

\* the handler with "return next(error)" in its first branch
UploadHandlerForwards(r) ==
  /\ Send(r, Response("json", UploadBody(files[r]), "handler"))
  /\ IF Len(files[r]) = 0
     THEN /\ forwarded' = [forwarded EXCEPT ![r] = [name |-> "Error", code |-> "400"]]
          /\ pc' = [pc EXCEPT ![r] = "error"]
     ELSE /\ pc' = [pc EXCEPT ![r] = "done"]
          /\ UNCHANGED forwarded

\* app.post("/upload-example") handler
UploadHandler(r) ==
  /\ Send(r, Response("json", UploadBody(files[r]), "handler"))
  /\ pc' = [pc EXCEPT ![r] = "done"]
  /\ UNCHANGED forwarded

\* the multipart body ends: multer calls next() and the handler runs
UploadEnd(r) ==
  /\ alive /\ pc[r] = "multer"
  /\ UploadHandler(r)
  /\ UNCHANGED <<env, now, uploads, alive, req, files, client, addedStuff, upstream>>

\* ----------------------------------------------------------- /proxy-example
\* a GET /proxy-example arrives: axios.get is called and the handler returns
ProxyRequest(r) ==
  /\ Idle(r)
  /\ req' = [req EXCEPT ![r] = Request("GET", "/proxy-example", "none", <<>>)]
  /\ pc' = [pc EXCEPT ![r] = "await"]
  /\ UNCHANGED <<env, now, uploads, alive, files, client, addedStuff, upstream,
                 forwarded, responses>>

\* .then(apiResponse => res.json(apiResponse.data))
ProxyThen(r, outcome) ==
  /\ Send(r, Response("json", outcome.data, "handler"))
  /\ pc' = [pc EXCEPT ![r] = "done"]
  /\ UNCHANGED <<forwarded, alive>>

\* a handler without .catch: the rejection is unhandled and ends the process
ProxyCatchMissing(r, outcome) ==
  /\ alive' = FALSE
  /\ UNCHANGED <<pc, forwarded, responses>>

\* .catch(err => next(err))
ProxyCatch(r, outcome) ==
  /\ forwarded' = [forwarded EXCEPT ![r] = AxiosError(outcome)]
  /\ pc' = [pc EXCEPT ![r] = "error"]
  /\ UNCHANGED <<responses, alive>>

\* the call to the animals API settles
ProxySettle(r) ==
  /\ alive /\ pc[r] = "await" /\ req[r].path = "/proxy-example"
  /\ \E outcome \in Fulfilled \cup Rejected :
       /\ upstream' = [upstream EXCEPT ![r] = outcome]
       /\ IF outcome.kind = "ok" THEN ProxyThen(r, outcome) ELSE ProxyCatch(r, outcome)
  /\ UNCHANGED <<env, now, uploads, req, files, client, addedStuff>>

\* ---------------------------------------------------------- /dotenv-example
DotenvRequest(r) ==
  /\ Idle(r)
  /\ req' = [req EXCEPT ![r] = Request("GET", "/dotenv-example", "none", <<>>)]
  /\ pc' = [pc EXCEPT ![r] = "await"]
  /\ UNCHANGED <<env, now, uploads, alive, files, client, addedStuff, upstream,
                 forwarded, responses>>

SetupInstructions ==
  [success |-> FALSE,
   error |-> "Oops... In order to use the dotenv module, you must first make a file named .env on your server - see the .env.example file for example."]

\* try: res.json(response.data)
DotenvTry(r, outcome) ==
  /\ Send(r, Response("json", outcome.data, "handler"))
  /\ pc' = [pc EXCEPT ![r] = "done"]
  /\ UNCHANGED forwarded

\* a catch block that hands the error to next(err), as the proxy route does
DotenvCatchForwards(r, outcome) ==
  /\ forwarded' = [forwarded EXCEPT ![r] = AxiosError(outcome)]
  /\ pc' = [pc EXCEPT ![r] = "error"]
  /\ UNCHANGED responses

\* catch (err): res.json({ success: false, error: ... })
DotenvCatch(r, outcome) ==
  /\ Send(r, Response("json", SetupInstructions, "handler"))
  /\ pc' = [pc EXCEPT ![r] = "done"]
  /\ UNCHANGED forwarded

\* the awaited call settles and the handler resumes
DotenvSettle(r) ==
  /\ alive /\ pc[r] = "await" /\ req[r].path = "/dotenv-example"
  /\ \E outcome \in ConfiguredOutcomes :
       /\ upstream' = [upstream EXCEPT ![r] = outcome]
       /\ IF outcome.kind = "ok" THEN DotenvTry(r, outcome) ELSE DotenvCatch(r, outcome)
  /\ UNCHANGED <<env, now, uploads, alive, req, files, client, addedStuff>>

\* ------------------------------------------------ /parameter-example/:animalId
ParameterRequest(r, animalId) ==
  /\ Idle(r)
  /\ req' = [req EXCEPT ![r] = Request("GET", "/parameter-example", animalId, <<>>)]
  /\ pc' = [pc EXCEPT ![r] = "await"]
  /\ UNCHANGED <<env, now, uploads, alive, files, client, addedStuff, upstream,
                 forwarded, responses>>

\* responseData of the handler
ParameterData(animalId, data) ==
  [status |-> "wonderful",
   message |-> <<"Imagine we got the data from the API for animal #", animalId>>,
   animalId |-> animalId,
   animal |-> data]

\* try: res.json(responseData)
ParameterTry(r, outcome) ==
  /\ Send(r, Response("json", ParameterData(req[r].animalId, outcome.data), "handler"))
  /\ pc' = [pc EXCEPT ![r] = "done"]
  /\ UNCHANGED forwarded

\* catch (err): res.json(err)
ParameterCatch(r, outcome) ==
  /\ Send(r, Response("json", AxiosError(outcome), "handler"))
  /\ pc' = [pc EXCEPT ![r] = "done"]
  /\ UNCHANGED forwarded

\* the awaited call settles and the handler resumes
ParameterSettle(r) ==
  /\ alive /\ pc[r] = "await" /\ req[r].path = "/parameter-example"
  /\ \E outcome \in ConfiguredOutcomes :
       /\ upstream' = [upstream EXCEPT ![r] = outcome]
       /\ IF outcome.kind = "ok" THEN ParameterTry(r, outcome) ELSE ParameterCatch(r, outcome)
  /\ UNCHANGED <<env, now, uploads, alive, req, files, client, addedStuff>>

\* -------------------------------------------------- the generic error path
\* Express's default error handler, reached by next(err): status 500 with the
\* error; when a response was already written it only closes the connection
ErrorHandler(r) ==
  /\ alive /\ pc[r] = "error"
  /\ IF responses[r] = <<>>
     THEN Send(r, [status |-> 500, type |-> "html", body |-> forwarded[r],
                   by |-> "errorHandler"])
     ELSE UNCHANGED responses
  /\ pc' = [pc EXCEPT ![r] = "done"]
  /\ UNCHANGED <<env, now, uploads, alive, req, files, client, addedStuff, upstream, forwarded>>

\* ------------------------------------------------------------------- Next
Next ==
  \E r \in Requests :
       \/ GetRoot(r)
       \/ GetHtml(r)
       \/ GetJson(r)
       \/ MiddlewareRequest(r)
       \/ First(r)
       \/ Second(r)
       \/ MiddlewareHandler(r)
       \/ \E form \in Forms : PostExample(r, form)
       \/ UploadRequest(r)
       \/ \E originalname \in Originals, t \in DateNow : UploadFile(r, originalname, t)
       \/ UploadEnd(r)
       \/ ProxyRequest(r)
       \/ ProxySettle(r)
       \/ DotenvRequest(r)
       \/ DotenvSettle(r)
       \/ \E animalId \in AnimalIds : ParameterRequest(r, animalId)
       \/ ParameterSettle(r)
       \/ ErrorHandler(r)

Spec == Init /\ [][Next]_vars

\* the steps that carry on a request that has arrived: a callback the event
\* loop has pending, the end of the body the client is sending, the
\* settling of the upstream call
Progress(r) ==
  \/ First(r)
  \/ Second(r)
  \/ MiddlewareHandler(r)
  \/ UploadEnd(r)
  \/ ProxySettle(r)
  \/ DotenvSettle(r)
  \/ ParameterSettle(r)
  \/ ErrorHandler(r)

\* no request that can be carried on is left waiting forever
Fairness == \A r \in Requests : WF_vars(Progress(r))

FairSpec == Init /\ [][Next]_vars /\ Fairness

\* ================================================================== claims
Done(r, path) == pc[r] = "done" /\ req[r].path = path

Failed(r) == upstream[r].kind \notin {"none", "ok"}

\* C1: every POST /upload-example whose field my_files carried no file or more
\* than three files is answered with status 200 and the failure JSON body,
\* written by the handler, and nothing is forwarded to the generic error path.
C1_PolicyFailureIs200 ==
  \A r \in Requests :
    (Done(r, "/upload-example") /\ (client[r].nfiles = 0 \/ client[r].nfiles > 3))
      => /\ responses[r] = <<Response("json", FailureBody, "handler")>>
         /\ forwarded[r] = NoError

\* C2: every POST /upload-example that carried n files, 1 <= n <= 3, is answered
\* with status 200 and the success JSON body whose files are the n descriptors
\* of the request, one per file.
C2_SuccessListsEveryFile ==
  \A r \in Requests :
    (Done(r, "/upload-example") /\ client[r].nfiles \in 1..3)
      => /\ Len(responses[r]) = 1
         /\ responses[r][1].status = 200
         /\ responses[r][1].type = "json"
         /\ responses[r][1].body.status = "all good"
         /\ responses[r][1].body.message = "files were uploaded!!!"
         /\ Len(responses[r][1].body.files) = client[r].nfiles
         /\ responses[r][1].body.files = files[r]
         /\ \A k \in 1..Len(files[r]) : files[r][k].originalname \in Originals

C2_ThreeFilesUploaded ==
  \E r \in Requests :
    /\ Done(r, "/upload-example")
    /\ client[r].nfiles = 3
    /\ Len(responses[r][1].body.files) = 3

\* C3: on GET /middleware-example the first middleware runs before the second
\* and both before the handler, each once, so the answer is status 200 with
\* the first marker followed by the second.
C3_MiddlewareOrder ==
  \A r \in Requests :
    /\ pc[r] = "second" =>
         TextOf(addedStuff[r]) = <<"First middleware function run!">>
    /\ (pc[r] = "handler" \/ Done(r, "/middleware-example")) =>
         TextOf(addedStuff[r]) =
           <<"First middleware function run!", " Second middleware function run!">>
    /\ Done(r, "/middleware-example") =>
         responses[r] =
           <<Response("html",
                      [parts |-> <<"First middleware function run!",
                                   " Second middleware function run!">>],
                      "handler")>>

C3_MiddlewareAnswered ==
  \E r \in Requests :
    /\ Done(r, "/middleware-example")
    /\ Len(responses[r][1].body.parts) = 2

\* C4: on GET /dotenv-example and GET /parameter-example/:animalId a failed
\* upstream call (network error, non-success status, unset API_BASE_URL or
\* API_SECRET_KEY) is answered by the handler itself with a JSON body (the
\* setup instructions for /dotenv-example, the error for the parameter route);
\* nothing is forwarded to the generic error path and the process keeps running.
C4_FailureAnsweredInHandler ==
  /\ alive
  /\ \A r \in Requests :
       req[r].path \in {"/dotenv-example", "/parameter-example"} =>
         /\ forwarded[r] = NoError
         /\ pc[r] # "error"
         /\ (Failed(r) /\ req[r].path = "/dotenv-example") =>
              responses[r] = <<Response("json", SetupInstructions, "handler")>>
         /\ (Failed(r) /\ req[r].path = "/parameter-example") =>
              responses[r] = <<Response("json", AxiosError(upstream[r]), "handler")>>

C4_BothRoutesFailed ==
  \E r1, r2 \in Requests :
    /\ Done(r1, "/dotenv-example") /\ Failed(r1)
    /\ Done(r2, "/parameter-example") /\ Failed(r2)

\* C5: on GET /proxy-example a fulfilled upstream call is answered with the
\* upstream body as JSON; a rejected one is answered by no response of the
\* handler: the error is forwarded to the generic error path, which answers,
\* and the process keeps running.
C5_ProxyForwardsFailure ==
  /\ alive
  /\ \A r \in Requests :
       req[r].path = "/proxy-example" =>
         /\ upstream[r].kind = "ok" =>
              /\ responses[r] = <<Response("json", upstream[r].data, "handler")>>
              /\ forwarded[r] = NoError
              /\ pc[r] = "done"
         /\ Failed(r) =>
              /\ forwarded[r] = AxiosError(upstream[r])
              /\ \A k \in 1..Len(responses[r]) : responses[r][k].by = "errorHandler"
              /\ pc[r] = "error" => responses[r] = <<>>
              /\ pc[r] = "done" =>
                   /\ Len(responses[r]) = 1
                   /\ responses[r][1].body = forwarded[r]

C5_ProxyFailureAnswered ==
  \E r1, r2 \in Requests :
    /\ Done(r1, "/proxy-example") /\ Failed(r1) /\ Len(responses[r1]) = 1
    /\ Done(r2, "/proxy-example") /\ upstream[r2].kind = "ok"

SameGet(r1, r2) ==
  /\ pc[r1] = "done" /\ pc[r2] = "done"
  /\ req[r1].method = "GET"
  /\ req[r1] = req[r2]

\* the files public/uploads holds are files that upload requests stored
OnlyUploadsStore ==
  uploads \subseteq
    UNION { StoredNames(files[r]) : r \in { q \in Requests : req[q].path = "/upload-example" } }

\* C6 as stated: two GET requests for the same route (and animalId) are
\* answered with identical responses, and GET requests change no server state.
C6_GetIdempotent ==
  /\ \A r1, r2 \in Requests : SameGet(r1, r2) => responses[r1] = responses[r2]
  /\ OnlyUploadsStore

\* C6 amended: GET requests change no server state; two GET requests for the
\* same route (and animalId) are answered with identical responses whenever
\* their upstream calls settled alike, so always on the four routes that make
\* no upstream call.
C6_GetDeterminedByUpstream ==
  /\ \A r1, r2 \in Requests :
       (SameGet(r1, r2) /\ upstream[r1] = upstream[r2]) => responses[r1] = responses[r2]
  /\ \A r \in Requests :
       req[r].path \in {"/", "/html-example", "/json-example", "/middleware-example"}
         => upstream[r] = Pending
  /\ OnlyUploadsStore

C6_RepeatedGets ==
  \E r1, r2 \in Requests :
    /\ r1 # r2
    /\ SameGet(r1, r2)
    /\ req[r1].path = "/proxy-example"
    /\ upstream[r1].kind = "ok"
    /\ upstream[r1] = upstream[r2]
    /\ responses[r1] = responses[r2]
    /\ responses[r1] # <<>>

\* C7: res.addedStuff belongs to one request: whatever the interleaving of
\* the middleware steps and handlers of concurrent requests, the field of a
\* request holds only what that request's own steps wrote, and the response
\* to GET /middleware-example is the text of that field.
C7_AddedStuffRequestScoped ==
  \A r \in Requests :
    /\ \A k \in 1..Len(addedStuff[r]) : addedStuff[r][k].by = r
    /\ req[r].path # "/middleware-example" => addedStuff[r] = <<>>
    /\ Done(r, "/middleware-example") =>
         /\ Len(responses[r]) = 1
         /\ responses[r][1].body.parts = TextOf(addedStuff[r])

C7_ChainsInterleaved ==
  \E r1, r2 \in Requests :
    /\ r1 # r2
    /\ pc[r1] = "second"
    /\ Done(r2, "/middleware-example")
    /\ addedStuff[r1] # <<>>

\* every descriptor of a stored file: <<request, position in req.files>>
Stored == { <<r, k>> : r \in Requests, k \in 1..maxCount }

IsStored(f) == f[2] <= Len(files[f[1]])

\* C8: every accepted file is stored as <basename>-<timestamp><extension> of
\* its original name, and any two accepted files, of one request or of two,
\* are stored under different names.
C8_StoredNamesDistinct ==
  /\ \A f \in Stored :
       IsStored(f) =>
         LET d == files[f[1]][f[2]]
             ext == extname(d.originalname)
         IN \E t \in 0..MaxTime :
              d.filename = basename(d.originalname, ext) \o <<"-">> \o ToDigits(t) \o ext
  /\ \A f, g \in Stored :
       (IsStored(f) /\ IsStored(g) /\ f # g)
         => files[f[1]][f[2]].filename # files[g[1]][g[2]].filename

\* C9: every POST /post-example with string fields your_name, your_email and
\* agree is answered with status 200 and JSON whose status is "amazing
\* success!" and whose your_data holds the three submitted strings unchanged.
C9_PostEchoesFields ==
  \A r \in Requests :
    Done(r, "/post-example") =>
      /\ Len(responses[r]) = 1
      /\ responses[r][1].status = 200
      /\ responses[r][1].type = "json"
      /\ responses[r][1].body.status = "amazing success!"
      /\ responses[r][1].body.your_data =
           [name |-> client[r].form.your_name,
            email |-> client[r].form.your_email,
            agree |-> client[r].form.agree]

C9_EscapedFormPosted ==
  \E r \in Requests :
    /\ Done(r, "/post-example")
    /\ client[r].form.your_name = <<"a", "&", "b", "=", " ", "+", "%">>
    /\ req[r].body # FormBody(NoForm)
    /\ responses[r] # <<>>

\* a response of the handler and an error forwarded by it, both for one request
AnsweredAndForwarded(r) ==
  /\ forwarded[r] # NoError
  /\ \E k \in 1..Len(responses[r]) : responses[r][k].by = "handler"

\* C10: a request that arrived on any route is eventually answered, and with
\* exactly one response: never two responses, never a response of the
\* handler together with a forwarded error, whatever the number of files and
\* however the upstream call settles.
C10_AnsweredExactlyOnce ==
  /\ [](\A r \in Requests : Len(responses[r]) <= 1 /\ ~AnsweredAndForwarded(r))
  /\ \A r \in Requests :
       (pc[r] # "idle") ~> (pc[r] = "done" /\ Len(responses[r]) = 1)

C10_ErrorPathAnswered ==
  \E r1, r2 \in Requests :
    /\ Done(r1, "/upload-example") /\ client[r1].nfiles = 4
    /\ Len(responses[r1]) = 1
    /\ Done(r2, "/proxy-example") /\ Failed(r2)
    /\ Len(responses[r2]) = 1

====
